---- MODULE Spec2Model ----
(***************************************************************************)
(* Model of the kopy controller: the reconcile engine KopyReconcile        *)
(* (internal/controller/kopier.go) driven through the Secret adapter       *)
(* KopySecret (internal/controller/kopysecret.go), the namespace helpers   *)
(* (internal/controller/controller_helpers.go) and the namespace mapper    *)
(* watchNamespaces (internal/controller/secret_controller.go).             *)
(*                                                                         *)
(* The cluster API is the store the engine reads and writes: objs (the     *)
(* Secrets by namespace/name) and nss (the namespaces).  The work queue    *)
(* holds the keys with a pending reconcile request.  One Reconcile step is *)
(* one whole run of KopyReconcile on a dequeued key; the controller is     *)
(* registered without MaxConcurrentReconciles, so runs are serial.         *)
(* Reads are taken from the store itself (no cache lag).  crashed holds    *)
(* when the controller process has died of a panic in the namespace        *)
(* mapper, which runs outside the reconciler's panic recovery.             *)
(***************************************************************************)
EXTENDS Integers, Sequences, FiniteSets, TLC

VARIABLES objs, nss, uidGen, queue, ops, selected, buildSrc, built, crashed

vars == <<objs, nss, uidGen, queue, ops, selected, buildSrc, built, crashed>>

-----------------------------------------------------------------------------
(* Sentinel strings, kopier.go:29-34 *)
syncKey == "kopy.kot-labs.com/sync"
sourceLabelNamespace == "kopy.kot-labs.com/origin.namespace"
syncFinalizer == "kopy.kot-labs.com/finalizer"

(* Bounds of the model *)
MaxOps == 4
MaxData == 1

Namespaces == {"a", "b", "t"}
SourceNamespaces == {"a", "b"}
(* The object names of the cluster, and the one the test client creates     *)
(* sources under                                                            *)
Names == {"tok", "key"}
OperatorNames == {"tok"}
Keys == Namespaces \X Names
OperatorKeys == Namespaces \X OperatorNames

(* Payloads: a source is created with InitialPayload and updated to another *)
InitialPayload == 1
Payloads == InitialPayload..(InitialPayload + MaxData)

(* A string is a sequence of tokens: "=" or a label-legal word *)
SyncValues == { <<"app", "=", "demo">>, <<"app", "=", "other">> }

(* Annotation values that are not K=V with a non-empty K and V *)
MalformedValues == { <<"app">>, <<"app", "=">> }

EmptyMap == [x \in {} |-> ""]
NamespaceLabelSets == {EmptyMap, "app" :> "demo", "app" :> "other"}

(* Go map lookup m[k]: the zero value when the key is missing *)
LookupLabel(m, k) == IF k \in DOMAIN m THEN m[k] ELSE ""
LookupAnnotation(m, k) == IF k \in DOMAIN m THEN m[k] ELSE <<>>

(* The zero-valued corev1.Secret, also what a key without object holds *)
NoObj == [exists |-> FALSE, name |-> "", namespace |-> "", data |-> 0,
          annotations |-> EmptyMap, labels |-> EmptyMap, finalizers |-> {},
          del |-> FALSE, uid |-> 0]

NoErr == "nil"

-----------------------------------------------------------------------------
(* The cluster API as the engine's client sees it.  c is the store during   *)
(* one reconcile: c.objs, c.gen (the next unique-id per key) and c.ev (the  *)
(* keys whose stored object changed, each of which raises a watch event).   *)
(* fail is the set of keys on which a write fails with a transient error.   *)

NamespaceExists(n) == n \in Namespaces /\ nss[n].exists

ApiGet(c, namespace, name) ==
    IF <<namespace, name>> \in Keys /\ c.objs[<<namespace, name>>].exists
    THEN [obj |-> c.objs[<<namespace, name>>], err |-> NoErr]
    ELSE [obj |-> NoObj, err |-> "NotFound"]

ApiCreate(c, o, fail) ==
    LET k == <<o.namespace, o.name>> IN
    IF k \in fail THEN [c |-> c, err |-> "Transient"]
    ELSE IF ~NamespaceExists(o.namespace) THEN [c |-> c, err |-> "NotFound"]
    ELSE IF nss[o.namespace].terminating THEN [c |-> c, err |-> "Forbidden"]
    ELSE IF c.objs[k].exists THEN [c |-> c, err |-> "AlreadyExists"]
    ELSE [c |-> [objs |-> [c.objs EXCEPT ![k] = [o EXCEPT !.uid = c.gen[k], !.del = FALSE]],
                 gen |-> [c.gen EXCEPT ![k] = 3 - c.gen[k]],
                 ev |-> c.ev \cup {k}],
          err |-> NoErr]

(* The mark, in the set of failing calls, of a stored object that was modified
   after the caller read it *)
ConflictOn(k) == <<"CONFLICT", k[1], k[2]>>

(* Update that raises an event also when it changes nothing *)
ApiUpdate_AlwaysEvent(c, o, fail) ==
    LET k == <<o.namespace, o.name>> IN
    IF k \in fail THEN [c |-> c, err |-> "Transient"]
    ELSE IF ~(k \in Keys /\ c.objs[k].exists) THEN [c |-> c, err |-> "NotFound"]
    ELSE IF ConflictOn(k) \in fail /\ o.uid # 0 THEN [c |-> c, err |-> "Conflict"]
    ELSE LET old == c.objs[k]
             new == [o EXCEPT !.uid = old.uid, !.del = old.del]
         IN IF old.del /\ ~(new.finalizers \subseteq old.finalizers)
            THEN [c |-> c, err |-> "Forbidden"]
            ELSE IF new.del /\ new.finalizers = {}
            THEN [c |-> [c EXCEPT !.objs[k] = NoObj, !.ev = c.ev \cup {k}], err |-> NoErr]
            ELSE IF FALSE THEN [c |-> c, err |-> NoErr]
            ELSE [c |-> [c EXCEPT !.objs[k] = new, !.ev = c.ev \cup {k}], err |-> NoErr]

(* Update.  An object read from the API carries its uid and resourceVersion,
   one built in memory carries neither (uid 0) and is written unconditionally;
   an Update that carries the resourceVersion of a version that is no longer
   the stored one is refused with Conflict *)
ApiUpdate(c, o, fail) ==
    LET k == <<o.namespace, o.name>> IN
    IF k \in fail THEN [c |-> c, err |-> "Transient"]
    ELSE IF ~(k \in Keys /\ c.objs[k].exists) THEN [c |-> c, err |-> "NotFound"]
    ELSE IF ConflictOn(k) \in fail /\ o.uid # 0 THEN [c |-> c, err |-> "Conflict"]
    ELSE LET old == c.objs[k]
             new == [o EXCEPT !.uid = old.uid, !.del = old.del]
         IN IF old.del /\ ~(new.finalizers \subseteq old.finalizers)
            THEN [c |-> c, err |-> "Forbidden"]
            ELSE IF new.del /\ new.finalizers = {}
            THEN [c |-> [c EXCEPT !.objs[k] = NoObj, !.ev = c.ev \cup {k}], err |-> NoErr]
            ELSE IF new = old THEN [c |-> c, err |-> NoErr]
            ELSE [c |-> [c EXCEPT !.objs[k] = new, !.ev = c.ev \cup {k}], err |-> NoErr]

ApiDelete(c, k) ==
    IF ~c.objs[k].exists THEN c
    ELSE IF c.objs[k].finalizers # {}
    THEN [c EXCEPT !.objs[k].del = TRUE, !.ev = c.ev \cup {k}]
    ELSE [c EXCEPT !.objs[k] = NoObj, !.ev = c.ev \cup {k}]

-----------------------------------------------------------------------------
(* String handling *)

(* strings.Split(v, "="): the segments between the "=" tokens *)
RECURSIVE Split(_)
Split(v) ==
    IF v = <<>> THEN << <<>> >>
    ELSE LET rest == Split(Tail(v)) IN
         IF Head(v) = "=" THEN << <<>> >> \o rest
         ELSE << <<Head(v)>> \o Head(rest) >> \o Tail(rest)

(* A segment as a Go string: the empty string or its single word *)
Word(seg) == IF seg = <<>> THEN "" ELSE seg[1]

(* labels.Parse(v): ok = FALSE is the parse error, which leaves the selector nil *)
ParseSelector(v) ==
    IF v = <<>> THEN [ok |-> TRUE, op |-> "everything", key |-> "", value |-> ""]
    ELSE IF Len(v) = 1 /\ v[1] # "=" THEN [ok |-> TRUE, op |-> "exists", key |-> v[1], value |-> ""]
    ELSE IF Len(v) = 2 /\ v[1] # "=" /\ v[2] = "="
         THEN [ok |-> TRUE, op |-> "equals", key |-> v[1], value |-> ""]
    ELSE IF Len(v) = 3 /\ v[1] # "=" /\ v[2] = "=" /\ v[3] # "="
         THEN [ok |-> TRUE, op |-> "equals", key |-> v[1], value |-> v[3]]
    ELSE [ok |-> FALSE, op |-> "nil", key |-> "", value |-> ""]

(* labels.Selector.Matches; a nil selector in ListOptions selects everything *)
SelectorMatches(sel, lbls) ==
    CASE sel.op = "equals" -> sel.key \in DOMAIN lbls /\ lbls[sel.key] = sel.value
      [] sel.op = "exists" -> sel.key \in DOMAIN lbls
      [] OTHER -> TRUE


-----------------------------------------------------------------------------
(* controller_helpers.go *)

(* The fault "the GET of namespace n fails with an error other than not-found" *)
GetFails(n) == <<"GET", n>>

(* isNamespaceMarkedForDelete: the namespace is absent or its phase is       *)
(* Terminating.  An error other than not-found is dropped and the phase of   *)
(* the zero Namespace is read, which is not Terminating.                     *)
isNamespaceMarkedForDelete(namespace, fail) ==
    IF GetFails(namespace) \in fail THEN FALSE
    ELSE IF ~NamespaceExists(namespace) THEN TRUE
    ELSE nss[namespace].terminating

(* namespaceContainsSyncLabel: "panic" when the annotation holds no "=" (label[1]) *)
namespaceContainsSyncLabel(o, nsLabels) ==
    IF syncKey \notin DOMAIN o.annotations THEN "false"
    ELSE LET label == Split(o.annotations[syncKey]) IN
         IF Len(label) < 2 THEN "panic"
         ELSE IF LookupLabel(nsLabels, Word(label[1])) = Word(label[2]) THEN "true"
         ELSE "false"

(* getSyncNamespaces that lists without the selector *)
getSyncNamespaces_Unselected(req, selector) ==
    { n \in Namespaces :
        /\ nss[n].exists
        /\ n # req.namespace
        /\ ~nss[n].terminating }

(* getSyncNamespaces that keeps the request's own namespace *)
getSyncNamespaces_WithOwn(req, selector) ==
    { n \in Namespaces :
        /\ nss[n].exists
        /\ SelectorMatches(selector, nss[n].labels)
        /\ ~nss[n].terminating }

(* getSyncNamespaces that keeps the namespaces marked for deletion *)
getSyncNamespaces_WithTerminating(req, selector) ==
    { n \in Namespaces :
        /\ nss[n].exists
        /\ SelectorMatches(selector, nss[n].labels)
        /\ n # req.namespace }

(* getSyncNamespaces: the listed namespaces but the request's own and the deleted ones *)
getSyncNamespaces(req, selector) ==
    { n \in Namespaces :
        /\ nss[n].exists
        /\ SelectorMatches(selector, nss[n].labels)
        /\ n # req.namespace
        /\ ~nss[n].terminating }

(* listOptions + List: the objects labelled with the receiver's namespace as origin *)
listCopies(c, o) ==
    { k \in Keys :
        /\ c.objs[k].exists
        /\ sourceLabelNamespace \in DOMAIN c.objs[k].labels
        /\ c.objs[k].labels[sourceLabelNamespace] = o.namespace }

-----------------------------------------------------------------------------
(* kopysecret.go: the Secret adapter *)

ContainsFinalizer(o) == syncFinalizer \in o.finalizers

WithFinalizer(o) == [o EXCEPT !.finalizers = o.finalizers \cup {syncFinalizer}]

WithoutFinalizer(o) == [o EXCEPT !.finalizers = o.finalizers \ {syncFinalizer}]

WithoutLabel(o, l) == [o EXCEPT !.labels = [x \in DOMAIN o.labels \ {l} |-> o.labels[x]]]

(* AddFinalizer that drops the error of its Update *)
AddFinalizer_DropError(c, self, fail) ==
    [c |-> ApiUpdate(c, WithFinalizer(self), fail).c, err |-> NoErr]

AddFinalizer(c, self, fail) == ApiUpdate(c, WithFinalizer(self), fail)

(* BuildCopy that labels the copy with the namespace it is written to *)
BuildCopy_TargetLabel(s, namespace) ==
    [exists |-> TRUE, name |-> s.name, namespace |-> namespace, data |-> s.data,
     annotations |-> EmptyMap, labels |-> (sourceLabelNamespace :> namespace),
     finalizers |-> {syncFinalizer}, del |-> FALSE, uid |-> 0]

(* BuildCopy that carries the source's annotations over to the copy *)
BuildCopy_WithAnnotations(s, namespace) ==
    [exists |-> TRUE, name |-> s.name, namespace |-> namespace, data |-> s.data,
     annotations |-> s.annotations, labels |-> (sourceLabelNamespace :> s.namespace),
     finalizers |-> {syncFinalizer}, del |-> FALSE, uid |-> 0]

(* The object Copy builds from s for the target namespace *)
BuildCopy(s, namespace) ==
    [exists |-> TRUE, name |-> s.name, namespace |-> namespace, data |-> s.data,
     annotations |-> EmptyMap, labels |-> (sourceLabelNamespace :> s.namespace),
     finalizers |-> {syncFinalizer}, del |-> FALSE, uid |-> 0]

(* Copy that creates only: an existing object is left as it is *)
Copy_CreateOnly(c, s, namespace, fail) ==
    LET copy == BuildCopy(s, namespace)
        cr == ApiCreate(c, copy, fail)
    IN IF cr.err = "AlreadyExists" THEN [c |-> c, err |-> NoErr]
       ELSE IF cr.err # NoErr THEN [c |-> c, err |-> "error copying secret"]
       ELSE cr

(* Copy that replaces an existing object by a newly created one *)
Copy_Replace(c, s, namespace, fail) ==
    LET copy == BuildCopy(s, namespace)
        k == <<namespace, s.name>>
        cr == ApiCreate(c, copy, fail)
    IN IF cr.err = "AlreadyExists"
       THEN [c |-> [objs |-> [c.objs EXCEPT ![k] = [copy EXCEPT !.uid = c.gen[k]]],
                    gen |-> [c.gen EXCEPT ![k] = 3 - c.gen[k]],
                    ev |-> c.ev \cup {k}],
             err |-> NoErr]
       ELSE IF cr.err # NoErr THEN [c |-> c, err |-> "error copying secret"]
       ELSE cr

(* Copy: Create, and Update when the object already exists *)
Copy(c, s, namespace, fail) ==
    LET copy == BuildCopy(s, namespace)
        cr == ApiCreate(c, copy, fail)
    IN IF cr.err = "AlreadyExists"
       THEN LET up == ApiUpdate(c, copy, fail) IN
            IF up.err # NoErr THEN [c |-> c, err |-> "unable to copy secret"] ELSE up
       ELSE IF cr.err # NoErr THEN [c |-> c, err |-> "error copying secret"]
       ELSE cr

(* The fault "the GET of the requested object fails with an error other than
   not-found" *)
FetchFails(req) == <<"FETCH", req.namespace, req.name>>

(* Fetch reads the client's cache: the version the store record holds in its
   field read when the cache lags behind the API, else the stored object *)
Fetch(c, req) ==
    IF "read" \in DOMAIN c THEN c.read ELSE ApiGet(c, req.namespace, req.name).obj

LabelSelector(o) == ParseSelector(LookupAnnotation(o.annotations, syncKey))

MarkedForDeletion(o) == o.del /\ ContainsFinalizer(o)

SyncOptions(o) == syncKey \in DOMAIN o.annotations

(* SyncDeletedCopy that releases the deleted copy and does not build a new one *)
SyncDeletedCopy_NoRegenerate(c, self, fail) ==
    LET origin == ApiGet(c, LookupLabel(self.labels, sourceLabelNamespace), self.name) IN
    IF origin.err # NoErr THEN [c |-> c, err |-> origin.err]
    ELSE IF ~NamespaceExists(self.namespace) THEN [c |-> c, err |-> "NotFound"]
    ELSE ApiUpdate(c, WithoutFinalizer(self), fail)

(* SyncDeletedCopy that builds the copy again whatever the namespace's labels *)
SyncDeletedCopy_AlwaysRegenerate(c, self, fail) ==
    LET origin == ApiGet(c, LookupLabel(self.labels, sourceLabelNamespace), self.name) IN
    IF origin.err # NoErr THEN [c |-> c, err |-> origin.err]
    ELSE IF ~NamespaceExists(self.namespace) THEN [c |-> c, err |-> "NotFound"]
    ELSE LET up == ApiUpdate(c, WithoutFinalizer(self), fail) IN
         IF up.err # NoErr THEN up
         ELSE Copy(up.c, origin.obj, self.namespace, fail)

SyncDeletedCopy(c, self, fail) ==
    LET origin == ApiGet(c, LookupLabel(self.labels, sourceLabelNamespace), self.name) IN
    IF origin.err # NoErr THEN [c |-> c, err |-> origin.err]
    ELSE IF ~NamespaceExists(self.namespace) THEN [c |-> c, err |-> "NotFound"]
    ELSE LET up == ApiUpdate(c, WithoutFinalizer(self), fail) IN
         IF up.err # NoErr THEN up
         ELSE LET has == namespaceContainsSyncLabel(origin.obj, nss[self.namespace].labels) IN
              IF has = "panic" THEN [c |-> up.c, err |-> "panic"]
              ELSE IF has = "true" THEN Copy(up.c, origin.obj, self.namespace, fail)
              ELSE up

(* SyncSource that upserts whatever the target's origin label says *)
SyncSource_NoOwnerCheck(c, name, sourceNamespace, targetNamespace, fail) ==
    LET source == ApiGet(c, sourceNamespace, name) IN
    IF source.err # NoErr THEN [c |-> c, err |-> source.err]
    ELSE Copy(c, source.obj, targetNamespace, fail)

(* SyncSource that leaves a target without origin label as it is *)
SyncSource_KeepUnlabelled(c, name, sourceNamespace, targetNamespace, fail) ==
    LET source == ApiGet(c, sourceNamespace, name)
        target == ApiGet(c, targetNamespace, name)
    IN IF source.err # NoErr THEN [c |-> c, err |-> source.err]
       ELSE IF target.err = "NotFound" THEN Copy(c, source.obj, targetNamespace, fail)
       ELSE IF sourceLabelNamespace \notin DOMAIN target.obj.labels
            THEN [c |-> c, err |-> NoErr]
       ELSE IF target.obj.labels[sourceLabelNamespace] # sourceNamespace
            THEN [c |-> c, err |-> "has a different source"]
       ELSE Copy(c, source.obj, targetNamespace, fail)

(* SyncSource.  A GET of the target that fails leaves the zero Secret in
   targetSecret: only not-found is tested, so the failed read goes on as a
   target without origin label *)
SyncSource(c, name, sourceNamespace, targetNamespace, fail) ==
    LET source == ApiGet(c, sourceNamespace, name)
        target == IF FetchFails([namespace |-> targetNamespace, name |-> name]) \in fail
                  THEN [obj |-> NoObj, err |-> "Transient"]
                  ELSE ApiGet(c, targetNamespace, name)
    IN IF source.err # NoErr THEN [c |-> c, err |-> source.err]
       ELSE IF target.err = "NotFound" THEN Copy(c, source.obj, targetNamespace, fail)
       ELSE IF sourceLabelNamespace \notin DOMAIN target.obj.labels
            THEN Copy(c, source.obj, targetNamespace, fail)
       ELSE IF target.obj.labels[sourceLabelNamespace] # sourceNamespace
            THEN [c |-> c, err |-> "has a different source"]
       ELSE Copy(c, source.obj, targetNamespace, fail)

(* The loop of SourceDeletion that takes the finalizer and leaves the label *)
RECURSIVE ReleaseCopies_KeepLabel(_, _, _, _)
ReleaseCopies_KeepLabel(c, self, copies, fail) ==
    IF copies = {} THEN [c |-> c, errs |-> {}]
    ELSE LET k == CHOOSE x \in copies : TRUE
             cp == c.objs[k]
             step == IF cp.name # self.name \/ ~ContainsFinalizer(cp)
                     THEN [c |-> c, err |-> NoErr]
                     ELSE ApiUpdate(c, WithoutFinalizer(cp), fail)
             rest == ReleaseCopies_KeepLabel(step.c, self, copies \ {k}, fail)
         IN [c |-> rest.c, errs |-> rest.errs \cup (IF step.err # NoErr THEN {k} ELSE {})]

(* The loop of SourceDeletion without the test of the copy's name *)
RECURSIVE ReleaseCopies_AnyName(_, _, _, _)
ReleaseCopies_AnyName(c, self, copies, fail) ==
    IF copies = {} THEN [c |-> c, errs |-> {}]
    ELSE LET k == CHOOSE x \in copies : TRUE
             cp == c.objs[k]
             step == IF ~ContainsFinalizer(cp)
                     THEN [c |-> c, err |-> NoErr]
                     ELSE ApiUpdate(c, WithoutLabel(WithoutFinalizer(cp), sourceLabelNamespace), fail)
             rest == ReleaseCopies_AnyName(step.c, self, copies \ {k}, fail)
         IN [c |-> rest.c, errs |-> rest.errs \cup (IF step.err # NoErr THEN {k} ELSE {})]

(* The loop of SourceDeletion over the listed copies: errs collects the failures *)
RECURSIVE ReleaseCopies(_, _, _, _)
ReleaseCopies(c, self, copies, fail) ==
    IF copies = {} THEN [c |-> c, errs |-> {}]
    ELSE LET k == CHOOSE x \in copies : TRUE
             cp == c.objs[k]
             step == IF cp.name # self.name \/ ~ContainsFinalizer(cp)
                     THEN [c |-> c, err |-> NoErr]
                     ELSE ApiUpdate(c, WithoutLabel(WithoutFinalizer(cp), sourceLabelNamespace), fail)
             rest == ReleaseCopies(step.c, self, copies \ {k}, fail)
         IN [c |-> rest.c, errs |-> rest.errs \cup (IF step.err # NoErr THEN {k} ELSE {})]

(* SourceDeletion that drops the receiver's finalizer and leaves the copies *)
SourceDeletion_SelfOnly(c, self, fail) == ApiUpdate(c, WithoutFinalizer(self), fail)

SourceDeletion(c, self, fail) ==
    LET rel == ReleaseCopies(c, self, listCopies(c, self), fail) IN
    IF rel.errs # {} THEN [c |-> rel.c, err |-> "unable to remove finalizer from copy"]
    ELSE ApiUpdate(rel.c, WithoutFinalizer(self), fail)

-----------------------------------------------------------------------------
(* kopier.go: the reconcile engine *)

(* The fan-out loop: the error of a SyncSource is logged and the loop goes on *)
RECURSIVE SyncNamespaces(_, _, _, _)
SyncNamespaces(c, req, namespaces, fail) ==
    IF namespaces = {} THEN [c |-> c, err |-> NoErr]
    ELSE LET n == CHOOSE x \in namespaces : TRUE
             step == SyncSource(c, req.name, req.namespace, n, fail)
         IN SyncNamespaces(step.c, req, namespaces \ {n}, fail)

(* KopyReconcile whose teardown looks at the namespace before the annotation *)
KopyReconcile_NamespaceFirst(c, req, fail) ==
    IF req.name = "" /\ req.namespace = "" THEN [c |-> c, err |-> NoErr]
    ELSE IF FetchFails(req) \in fail THEN [c |-> c, err |-> "Transient"]
    ELSE LET self == Fetch(c, req) IN
    IF ContainsFinalizer(self)
    THEN IF MarkedForDeletion(self)
         THEN IF isNamespaceMarkedForDelete(req.namespace, fail)
              THEN ApiUpdate(c, WithoutFinalizer(self), fail)
              ELSE IF SyncOptions(self) THEN SourceDeletion(c, self, fail)
              ELSE SyncDeletedCopy(c, self, fail)
         ELSE IF sourceLabelNamespace \in DOMAIN self.labels
              THEN SyncSource(c, req.name, self.labels[sourceLabelNamespace], req.namespace, fail)
         ELSE IF SyncOptions(self)
              THEN SyncNamespaces(c, req, getSyncNamespaces(req, LabelSelector(self)), fail)
         ELSE SourceDeletion(c, self, fail)
    ELSE IF SyncOptions(self)
         THEN LET added == AddFinalizer(c, self, fail) IN
              IF added.err # NoErr THEN added
              ELSE SyncNamespaces(added.c, req, getSyncNamespaces(req, LabelSelector(self)), fail)
    ELSE [c |-> c, err |-> NoErr]

(* KopyReconcile whose teardown does not look at the namespace *)
KopyReconcile_NoNamespaceCheck(c, req, fail) ==
    IF req.name = "" /\ req.namespace = "" THEN [c |-> c, err |-> NoErr]
    ELSE IF FetchFails(req) \in fail THEN [c |-> c, err |-> "Transient"]
    ELSE LET self == Fetch(c, req) IN
    IF ContainsFinalizer(self)
    THEN IF MarkedForDeletion(self)
         THEN IF SyncOptions(self) THEN SourceDeletion(c, self, fail)
              ELSE SyncDeletedCopy(c, self, fail)
         ELSE IF sourceLabelNamespace \in DOMAIN self.labels
              THEN SyncSource(c, req.name, self.labels[sourceLabelNamespace], req.namespace, fail)
         ELSE IF SyncOptions(self)
              THEN SyncNamespaces(c, req, getSyncNamespaces(req, LabelSelector(self)), fail)
         ELSE SourceDeletion(c, self, fail)
    ELSE IF SyncOptions(self)
         THEN LET added == AddFinalizer(c, self, fail) IN
              IF added.err # NoErr THEN added
              ELSE SyncNamespaces(added.c, req, getSyncNamespaces(req, LabelSelector(self)), fail)
    ELSE [c |-> c, err |-> NoErr]

(* KopyReconcile that fans out although the finalizer could not be added *)
KopyReconcile_FanOutAnyway(c, req, fail) ==
    IF req.name = "" /\ req.namespace = "" THEN [c |-> c, err |-> NoErr]
    ELSE IF FetchFails(req) \in fail THEN [c |-> c, err |-> "Transient"]
    ELSE LET self == Fetch(c, req) IN
    IF ContainsFinalizer(self)
    THEN IF MarkedForDeletion(self)
         THEN IF SyncOptions(self) THEN SourceDeletion(c, self, fail)
              ELSE IF isNamespaceMarkedForDelete(req.namespace, fail)
                   THEN ApiUpdate(c, WithoutFinalizer(self), fail)
              ELSE SyncDeletedCopy(c, self, fail)
         ELSE IF sourceLabelNamespace \in DOMAIN self.labels
              THEN SyncSource(c, req.name, self.labels[sourceLabelNamespace], req.namespace, fail)
         ELSE IF SyncOptions(self)
              THEN SyncNamespaces(c, req, getSyncNamespaces(req, LabelSelector(self)), fail)
         ELSE SourceDeletion(c, self, fail)
    ELSE IF SyncOptions(self)
         THEN LET added == AddFinalizer(c, self, fail) IN
              SyncNamespaces(added.c, req, getSyncNamespaces(req, LabelSelector(self)), fail)
    ELSE [c |-> c, err |-> NoErr]

(* KopyReconcile that adds the finalizer to a new source and leaves the     *)
(* fan-out to the next run                                                  *)
KopyReconcile_FinalizerOnly(c, req, fail) ==
    IF req.name = "" /\ req.namespace = "" THEN [c |-> c, err |-> NoErr]
    ELSE IF FetchFails(req) \in fail THEN [c |-> c, err |-> "Transient"]
    ELSE LET self == Fetch(c, req) IN
    IF ContainsFinalizer(self)
    THEN IF MarkedForDeletion(self)
         THEN IF SyncOptions(self) THEN SourceDeletion(c, self, fail)
              ELSE IF isNamespaceMarkedForDelete(req.namespace, fail)
                   THEN ApiUpdate(c, WithoutFinalizer(self), fail)
              ELSE SyncDeletedCopy(c, self, fail)
         ELSE IF sourceLabelNamespace \in DOMAIN self.labels
              THEN SyncSource(c, req.name, self.labels[sourceLabelNamespace], req.namespace, fail)
         ELSE IF SyncOptions(self)
              THEN SyncNamespaces(c, req, getSyncNamespaces(req, LabelSelector(self)), fail)
         ELSE SourceDeletion(c, self, fail)
    ELSE IF SyncOptions(self)
         THEN AddFinalizer(c, self, fail)
    ELSE [c |-> c, err |-> NoErr]

(* KopyReconcile that puts the finalizer on an object without annotation *)
KopyReconcile_ManageAll(c, req, fail) ==
    IF req.name = "" /\ req.namespace = "" THEN [c |-> c, err |-> NoErr]
    ELSE IF FetchFails(req) \in fail THEN [c |-> c, err |-> "Transient"]
    ELSE LET self == Fetch(c, req) IN
    IF ContainsFinalizer(self)
    THEN IF MarkedForDeletion(self)
         THEN IF SyncOptions(self) THEN SourceDeletion(c, self, fail)
              ELSE IF isNamespaceMarkedForDelete(req.namespace, fail)
                   THEN ApiUpdate(c, WithoutFinalizer(self), fail)
              ELSE SyncDeletedCopy(c, self, fail)
         ELSE IF sourceLabelNamespace \in DOMAIN self.labels
              THEN SyncSource(c, req.name, self.labels[sourceLabelNamespace], req.namespace, fail)
         ELSE IF SyncOptions(self)
              THEN SyncNamespaces(c, req, getSyncNamespaces(req, LabelSelector(self)), fail)
         ELSE SourceDeletion(c, self, fail)
    ELSE IF SyncOptions(self)
         THEN LET added == AddFinalizer(c, self, fail) IN
              IF added.err # NoErr THEN added
              ELSE SyncNamespaces(added.c, req, getSyncNamespaces(req, LabelSelector(self)), fail)
    ELSE IF self.exists THEN AddFinalizer(c, self, fail) ELSE [c |-> c, err |-> NoErr]

(* KopyReconcile that goes on with the zero object when Fetch fails *)
KopyReconcile_IgnoreFetchError(c, req, fail) ==
    IF req.name = "" /\ req.namespace = "" THEN [c |-> c, err |-> NoErr]
    ELSE LET self == IF FetchFails(req) \in fail THEN NoObj ELSE Fetch(c, req) IN
    IF ContainsFinalizer(self)
    THEN IF MarkedForDeletion(self)
         THEN IF SyncOptions(self) THEN SourceDeletion(c, self, fail)
              ELSE IF isNamespaceMarkedForDelete(req.namespace, fail)
                   THEN ApiUpdate(c, WithoutFinalizer(self), fail)
              ELSE SyncDeletedCopy(c, self, fail)
         ELSE IF sourceLabelNamespace \in DOMAIN self.labels
              THEN SyncSource(c, req.name, self.labels[sourceLabelNamespace], req.namespace, fail)
         ELSE IF SyncOptions(self)
              THEN SyncNamespaces(c, req, getSyncNamespaces(req, LabelSelector(self)), fail)
         ELSE SourceDeletion(c, self, fail)
    ELSE IF SyncOptions(self)
         THEN LET added == AddFinalizer(c, self, fail) IN
              IF added.err # NoErr THEN added
              ELSE SyncNamespaces(added.c, req, getSyncNamespaces(req, LabelSelector(self)), fail)
    ELSE [c |-> c, err |-> NoErr]

(* KopyReconcile without the test for the blank request *)
KopyReconcile_NoEmptyCheck(c, req, fail) ==
    IF FetchFails(req) \in fail THEN [c |-> c, err |-> "Transient"]
    ELSE LET self == Fetch(c, req) IN
    IF ContainsFinalizer(self)
    THEN IF MarkedForDeletion(self)
         THEN IF SyncOptions(self) THEN SourceDeletion(c, self, fail)
              ELSE IF isNamespaceMarkedForDelete(req.namespace, fail)
                   THEN ApiUpdate(c, WithoutFinalizer(self), fail)
              ELSE SyncDeletedCopy(c, self, fail)
         ELSE IF sourceLabelNamespace \in DOMAIN self.labels
              THEN SyncSource(c, req.name, self.labels[sourceLabelNamespace], req.namespace, fail)
         ELSE IF SyncOptions(self)
              THEN SyncNamespaces(c, req, getSyncNamespaces(req, LabelSelector(self)), fail)
         ELSE SourceDeletion(c, self, fail)
    ELSE IF SyncOptions(self)
         THEN LET added == AddFinalizer(c, self, fail) IN
              IF added.err # NoErr THEN added
              ELSE SyncNamespaces(added.c, req, getSyncNamespaces(req, LabelSelector(self)), fail)
    ELSE [c |-> c, err |-> NoErr]

KopyReconcile(c, req, fail) ==
    IF req.name = "" /\ req.namespace = "" THEN [c |-> c, err |-> NoErr]
    ELSE IF FetchFails(req) \in fail THEN [c |-> c, err |-> "Transient"]
    ELSE LET self == Fetch(c, req) IN
    IF ContainsFinalizer(self)
    THEN IF MarkedForDeletion(self)
         THEN IF SyncOptions(self) THEN SourceDeletion(c, self, fail)
              ELSE IF isNamespaceMarkedForDelete(req.namespace, fail)
                   THEN ApiUpdate(c, WithoutFinalizer(self), fail)
              ELSE SyncDeletedCopy(c, self, fail)
         ELSE IF sourceLabelNamespace \in DOMAIN self.labels
              THEN SyncSource(c, req.name, self.labels[sourceLabelNamespace], req.namespace, fail)
         ELSE IF SyncOptions(self)
              THEN SyncNamespaces(c, req, getSyncNamespaces(req, LabelSelector(self)), fail)
         ELSE SourceDeletion(c, self, fail)
    ELSE IF SyncOptions(self)
         THEN LET added == AddFinalizer(c, self, fail) IN
              IF added.err # NoErr THEN added
              ELSE SyncNamespaces(added.c, req, getSyncNamespaces(req, LabelSelector(self)), fail)
    ELSE [c |-> c, err |-> NoErr]

-----------------------------------------------------------------------------
(* secret_controller.go: the namespace mapper.  ns is the namespace object   *)
(* of the event, os the listed Secrets.                                     *)
(* The zero value of reconcile.Request: blank name and namespace *)
EmptyRequest == <<"", "">>

Requests == Keys \cup {EmptyRequest}

(* The order in which List returns the Secrets *)
KeyList ==
    << <<"a", "key">>, <<"a", "tok">>, <<"b", "key">>, <<"b", "tok">>,
       <<"t", "key">>, <<"t", "tok">> >>

(* r.List: the keys of the stored Secrets *)
ListSecrets(os) == SelectSeq(KeyList, LAMBDA k : os[k].exists)

(* watchNamespaces: nil for a namespace that isNamespaceMarkedForDelete
   reports (a failed GET of the namespace reads as not marked); else a slice
   of one request per listed Secret, the Secret's key where its annotation K=V
   equals the namespace's label and the zero request where it does not *)
watchNamespaces(n, ns, os, fail) ==
    IF (IF GetFails(n) \in fail THEN FALSE ELSE ~ns.exists \/ ns.terminating) THEN << >>
    ELSE LET items == ListSecrets(os) IN
         [i \in 1..Len(items) |->
            IF namespaceContainsSyncLabel(os[items[i]], ns.labels) = "true"
            THEN items[i] ELSE EmptyRequest]

(* handler.EnqueueRequestsFromMapFunc: every request of the slice is added to
   the work queue, equal requests once *)
EnqueueRequestsFromMapFunc(reqs) == { reqs[i] : i \in 1..Len(reqs) }

(* watchNamespaces panics: it reads syncLabel[1] of every annotated Secret, *)
(* and the value of one of them holds no "="                                *)
watchNamespacesPanics(n, ns, os) ==
    /\ ns.exists /\ ~ns.terminating
    /\ \E k \in Keys :
          /\ os[k].exists
          /\ syncKey \in DOMAIN os[k].annotations
          /\ Len(Split(os[k].annotations[syncKey])) < 2

-----------------------------------------------------------------------------
(* The copy builders field by field.  A payload map is a Go map: EmptyMap   *)
(* stands for the nil map as well.                                          *)

PayloadMaps == {EmptyMap} \cup { ("k" :> d) : d \in Payloads }

SecretTypes == {"kubernetes.io/dockerconfigjson", "kubernetes.io/tls"}

ConfigMaps ==
    [kind : {"ConfigMap"}, name : Names, namespace : SourceNamespaces,
     Data : PayloadMaps, BinaryData : PayloadMaps]

Secrets ==
    [kind : {"Secret"}, name : Names, namespace : SourceNamespaces,
     Data : PayloadMaps, StringData : PayloadMaps, Type : SecretTypes]

NoBuild == [kind |-> "none"]

(* The object KopyConfigMap.Copy builds: BinaryData is not set and stays nil *)
ConfigMapCopy(s, namespace) ==
    [kind |-> "ConfigMap", name |-> s.name, namespace |-> namespace,
     Data |-> s.Data, BinaryData |-> EmptyMap,
     labels |-> (sourceLabelNamespace :> s.namespace),
     finalizers |-> {syncFinalizer}]

(* The object KopySecret.Copy builds *)
SecretCopy(s, namespace) ==
    [kind |-> "Secret", name |-> s.name, namespace |-> namespace,
     Data |-> s.Data, StringData |-> s.StringData, Type |-> s.Type,
     labels |-> (sourceLabelNamespace :> s.namespace),
     finalizers |-> {syncFinalizer}]

-----------------------------------------------------------------------------
(* State *)

TypeOK ==
    /\ DOMAIN objs = Keys
    /\ DOMAIN nss = Namespaces
    /\ queue \subseteq Requests
    /\ ops \in 0..MaxOps
    /\ \A k \in Keys : uidGen[k] \in {1, 2}
    /\ selected \subseteq Keys \X Namespaces
    /\ buildSrc \in {NoBuild} \cup ConfigMaps \cup Secrets
    /\ crashed \in BOOLEAN

Init ==
    /\ objs = [k \in Keys |-> NoObj]
    /\ nss = [n \in Namespaces |-> [exists |-> TRUE, labels |-> EmptyMap, terminating |-> FALSE]]
    /\ uidGen = [k \in Keys |-> 1]
    /\ queue = {}
    /\ ops = 0
    /\ selected = {}
    /\ buildSrc = NoBuild
    /\ built = NoBuild
    /\ crashed = FALSE

Store == [objs |-> objs, gen |-> uidGen, ev |-> {}]

-----------------------------------------------------------------------------
(* Vocabulary of the state *)

KeyOf(namespace, name) == <<namespace, name>>

(* The object at k carries the sync annotation *)
IsSource(k) == objs[k].exists /\ syncKey \in DOMAIN objs[k].annotations

HasFinalizer(k) == objs[k].exists /\ syncFinalizer \in objs[k].finalizers

(* The origin-namespace label of the object at k, "" when it has none *)
OriginOf(k) ==
    IF objs[k].exists /\ sourceLabelNamespace \in DOMAIN objs[k].labels
    THEN objs[k].labels[sourceLabelNamespace] ELSE ""

(* The object at c is labelled as a copy of the object at k *)
IsCopyOf(c, k) == c # k /\ c[2] = k[2] /\ objs[c].exists /\ OriginOf(c) = k[1]

ActiveNamespace(n) == nss[n].exists /\ ~nss[n].terminating

TerminatingNamespace(n) == nss[n].exists /\ nss[n].terminating

(* The labels lbls satisfy the directive v = K=V *)
Satisfies(lbls, v) ==
    /\ Len(v) = 3 /\ v[2] = "="
    /\ v[1] \in DOMAIN lbls /\ lbls[v[1]] = v[3]

(* Namespace n is selected by the source at k *)
Selects(k, n) ==
    /\ IsSource(k)
    /\ ActiveNamespace(n)
    /\ Satisfies(nss[n].labels, objs[k].annotations[syncKey])

(* History: selected holds <<k, n>> when the labels of namespace n have     *)
(* satisfied the selector of the source that is now at k.  Every step       *)
(* records the pairs of the state it reaches and forgets the sources that   *)
(* are gone, replaced or no longer annotated.                               *)
SameSource(k) ==
    /\ objs'[k].exists /\ objs'[k].uid = objs[k].uid
    /\ objs'[k].annotations = objs[k].annotations

Track ==
    selected' = { p \in selected : SameSource(p[1]) }
                    \cup { p \in Keys \X Namespaces : Selects(p[1], p[2])' }

-----------------------------------------------------------------------------
(* A namespace event reaches the mapper with the namespace as the step      *)
(* leaves it: the requests it returns join the queue, and its panic ends    *)
(* the process.                                                             *)
NamespaceEvent(n) ==
    IF ~crashed /\ watchNamespacesPanics(n, nss'[n], objs)
    THEN queue' = queue /\ crashed' = TRUE
    ELSE queue' = queue \cup EnqueueRequestsFromMapFunc(watchNamespaces(n, nss'[n], objs, {}))
         /\ crashed' = crashed

-----------------------------------------------------------------------------
(* Operator actions (the test client of the controller's test suite)        *)

CreateSource(k, v) ==
    /\ ops < MaxOps
    /\ k[1] \in SourceNamespaces
    /\ k[2] \in OperatorNames
    /\ ~objs[k].exists
    /\ LET o == [NoObj EXCEPT !.exists = TRUE, !.name = k[2], !.namespace = k[1],
                              !.data = InitialPayload, !.annotations = (syncKey :> v)]
           cr == ApiCreate(Store, o, {})
       IN /\ cr.err = NoErr
          /\ objs' = cr.c.objs
          /\ uidGen' = cr.c.gen
          /\ queue' = queue \cup cr.c.ev
    /\ ops' = ops + 1
    /\ UNCHANGED nss
    /\ UNCHANGED <<buildSrc, built, crashed>>

UpdateSource(k, d) ==
    /\ ops < MaxOps
    /\ k[2] \in OperatorNames
    /\ objs[k].exists
    /\ SyncOptions(objs[k])
    /\ d # objs[k].data
    /\ objs' = [objs EXCEPT ![k].data = d]
    /\ queue' = queue \cup {k}
    /\ ops' = ops + 1
    /\ UNCHANGED <<nss, uidGen>>
    /\ UNCHANGED <<buildSrc, built, crashed>>

RemoveAnnotation(k) ==
    /\ ops < MaxOps
    /\ k[2] \in OperatorNames
    /\ objs[k].exists
    /\ SyncOptions(objs[k])
    /\ objs' = [objs EXCEPT ![k].annotations = EmptyMap]
    /\ queue' = queue \cup {k}
    /\ ops' = ops + 1
    /\ UNCHANGED <<nss, uidGen>>
    /\ UNCHANGED <<buildSrc, built, crashed>>

DeleteObject(k) ==
    /\ ops < MaxOps
    /\ k[2] \in OperatorNames
    /\ objs[k].exists /\ ~objs[k].del
    /\ LET c == ApiDelete(Store, k) IN
          /\ objs' = c.objs
          /\ queue' = queue \cup c.ev
    /\ ops' = ops + 1
    /\ UNCHANGED <<nss, uidGen>>
    /\ UNCHANGED <<buildSrc, built, crashed>>

LabelNamespace(n, l) ==
    /\ ops < MaxOps
    /\ nss[n].exists /\ ~nss[n].terminating
    /\ nss[n].labels # l
    /\ nss' = [nss EXCEPT ![n].labels = l]
    /\ NamespaceEvent(n)
    /\ ops' = ops + 1
    /\ UNCHANGED <<objs, uidGen>>
    /\ UNCHANGED <<buildSrc, built>>

CreateNamespace(n, l) ==
    /\ ops < MaxOps
    /\ ~nss[n].exists
    /\ nss' = [nss EXCEPT ![n] = [exists |-> TRUE, labels |-> l, terminating |-> FALSE]]
    /\ NamespaceEvent(n)
    /\ ops' = ops + 1
    /\ UNCHANGED <<objs, uidGen>>
    /\ UNCHANGED <<buildSrc, built>>

DeleteNamespace(n) ==
    /\ ops < MaxOps
    /\ nss[n].exists /\ ~nss[n].terminating
    /\ nss' = [nss EXCEPT ![n].terminating = TRUE]
    /\ NamespaceEvent(n)
    /\ ops' = ops + 1
    /\ UNCHANGED <<objs, uidGen>>
    /\ UNCHANGED <<buildSrc, built>>

-----------------------------------------------------------------------------
(* The cluster's namespace controller: it deletes the content of a          *)
(* terminating namespace and removes the namespace once it is empty.        *)

RECURSIVE DeleteAll(_, _)
DeleteAll(c, ks) ==
    IF ks = {} THEN c
    ELSE LET k == CHOOSE x \in ks : TRUE IN DeleteAll(ApiDelete(c, k), ks \ {k})

NamespaceContent(n) == { k \in Keys : k[1] = n /\ objs[k].exists }

NamespaceGC(n) ==
    /\ nss[n].exists /\ nss[n].terminating
    /\ \E k \in NamespaceContent(n) : ~objs[k].del
    /\ LET c == DeleteAll(Store, { k \in NamespaceContent(n) : ~objs[k].del }) IN
          /\ objs' = c.objs
          /\ queue' = queue \cup c.ev
    /\ UNCHANGED <<nss, uidGen, ops>>
    /\ UNCHANGED <<buildSrc, built, crashed>>

NamespaceRemove(n) ==
    /\ nss[n].exists /\ nss[n].terminating
    /\ NamespaceContent(n) = {}
    /\ nss' = [nss EXCEPT ![n] = [exists |-> FALSE, labels |-> EmptyMap, terminating |-> FALSE]]
    /\ NamespaceEvent(n)
    /\ UNCHANGED <<objs, uidGen, ops>>
    /\ UNCHANGED <<buildSrc, built>>

-----------------------------------------------------------------------------
(* One reconcile: the request k leaves the queue, KopyReconcile runs, every  *)
(* object it changed raises a watch event for its key, and an error puts    *)
(* the request back (rate-limited retry).                                   *)

Request(k) == [namespace |-> k[1], name |-> k[2]]

ReconcileWith(k, fail) ==
    /\ ~crashed
    /\ k \in queue
    /\ LET r == KopyReconcile(Store, Request(k), fail) IN
          /\ objs' = r.c.objs
          /\ uidGen' = r.c.gen
          /\ queue' = ((queue \ {k}) \cup r.c.ev) \cup (IF r.err # NoErr THEN {k} ELSE {})
    /\ UNCHANGED <<nss, ops>>
    /\ UNCHANGED <<buildSrc, built, crashed>>

(* A reconcile during which no API call fails *)
Reconcile(k) == ReconcileWith(k, {})

(* A reconcile during which the writes to some keys fail *)
ReconcileFault(k) == \E fail \in (SUBSET OperatorKeys) \ {{}} : ReconcileWith(k, fail)

Next ==
    \/ \E k \in Keys, v \in SyncValues : CreateSource(k, v) /\ Track
    \/ \E k \in Keys, d \in Payloads : UpdateSource(k, d) /\ Track
    \/ \E k \in Keys : RemoveAnnotation(k) /\ Track
    \/ \E k \in Keys : DeleteObject(k) /\ Track
    \/ \E n \in Namespaces, l \in NamespaceLabelSets : LabelNamespace(n, l) /\ Track
    \/ \E n \in Namespaces, l \in NamespaceLabelSets : CreateNamespace(n, l) /\ Track
    \/ \E n \in Namespaces : DeleteNamespace(n) /\ Track
    \/ \E n \in Namespaces : NamespaceGC(n) /\ Track
    \/ \E n \in Namespaces : NamespaceRemove(n) /\ Track
    \/ \E k \in Requests : Reconcile(k) /\ Track

Spec == Init /\ [][Next]_vars

(* The same system when writes may fail *)
NextFault ==
    \/ Next
    \/ \E k \in Keys : ReconcileFault(k) /\ Track

FaultSpec == Init /\ [][NextFault]_vars

-----------------------------------------------------------------------------
(* The same system when the GET of a namespace, by the engine or by the     *)
(* mapper, may fail with a transient error.                                 *)
ReconcileGetFault(k) == ReconcileWith(k, {GetFails(k[1])})

(* An update event of namespace n (the namespace controller writes its status
   while it terminates) reaches the mapper while the mapper's GET of the
   namespace fails *)
NamespaceUpdateGetFault(n) ==
    /\ ~crashed
    /\ nss[n].exists
    /\ ~watchNamespacesPanics(n, nss[n], objs)
    /\ queue' = queue \cup EnqueueRequestsFromMapFunc(watchNamespaces(n, nss[n], objs, {GetFails(n)}))
    /\ UNCHANGED <<objs, nss, uidGen, ops>>
    /\ UNCHANGED <<buildSrc, built, crashed>>

NextGetFault ==
    \/ Next
    \/ \E k \in Keys : ReconcileGetFault(k) /\ Track
    \/ \E n \in Namespaces : NamespaceUpdateGetFault(n) /\ Track

GetFaultSpec == Init /\ [][NextGetFault]_vars

-----------------------------------------------------------------------------
(* The same system when the engine's GET of the requested object may fail   *)
(* with a transient error.                                                  *)
ReconcileFetchFault(k) == ReconcileWith(k, {FetchFails(Request(k))})

NextFetchFault ==
    \/ Next
    \/ \E k \in Requests : ReconcileFetchFault(k) /\ Track

FetchFaultSpec == Init /\ [][NextFetchFault]_vars

-----------------------------------------------------------------------------
(* The same system when SyncSource's GET of the target may fail with a      *)
(* transient error.                                                         *)
ReconcileTargetFault(k) ==
    \E n \in Namespaces \ {k[1]} :
        ReconcileWith(k, {FetchFails([namespace |-> n, name |-> k[2]])})

NextTargetFault ==
    \/ Next
    \/ \E k \in Keys : ReconcileTargetFault(k) /\ Track

TargetFaultSpec == Init /\ [][NextTargetFault]_vars

-----------------------------------------------------------------------------
(* The same system when the engine may work from a read of the reconciled   *)
(* object that another actor has modified since.                            *)

(* Versions of the object at k that a later write turned into the stored
   one: before a change of the payload, before the annotation was removed
   from a source, before the deletion request, before the finalizer was added *)
EarlierVersions(k) ==
    IF ~objs[k].exists THEN {}
    ELSE ({ [objs[k] EXCEPT !.data = d] : d \in Payloads }
          \cup (IF HasFinalizer(k) /\ OriginOf(k) = "" /\ ~IsSource(k)
                THEN { [objs[k] EXCEPT !.annotations = (syncKey :> v)] : v \in SyncValues }
                ELSE {})
          \cup { [objs[k] EXCEPT !.del = FALSE] }
          \cup (IF IsSource(k) /\ ~objs[k].del
                THEN { [objs[k] EXCEPT !.finalizers = {}] }
                ELSE {})) \ {objs[k]}

(* The store as a reconcile sees it whose read of the request's object
   returned the version old *)
StaleStore(old) == [objs |-> objs, gen |-> uidGen, ev |-> {}, read |-> old]

(* A reconcile of k that works from the earlier version old *)
ReconcileStaleWith(k, old) ==
    /\ ~crashed
    /\ k \in queue
    /\ old \in EarlierVersions(k)
    /\ LET r == KopyReconcile(StaleStore(old), Request(k), {ConflictOn(k)}) IN
          /\ objs' = r.c.objs
          /\ uidGen' = r.c.gen
          /\ queue' = ((queue \ {k}) \cup r.c.ev) \cup (IF r.err # NoErr THEN {k} ELSE {})
    /\ UNCHANGED <<nss, ops>>
    /\ UNCHANGED <<buildSrc, built, crashed>>

ReconcileStale(k) == \E old \in EarlierVersions(k) : ReconcileStaleWith(k, old)

NextConflict ==
    \/ Next
    \/ \E k \in Keys : ReconcileStale(k) /\ Track

ConflictSpec == Init /\ [][NextConflict]_vars

-----------------------------------------------------------------------------
(* The same system when a source may carry a malformed annotation value.    *)

(* The process starts again after a crash: the informers list every         *)
(* namespace and every Secret, so the mapper runs for each namespace and    *)
(* each Secret is queued.  A start during which the mapper panics again     *)
(* leaves the process down.                                                 *)
Restart ==
    /\ crashed
    /\ \A n \in Namespaces : ~watchNamespacesPanics(n, nss[n], objs)
    /\ crashed' = FALSE
    /\ queue' = { k \in Keys : objs[k].exists }
                 \cup UNION { EnqueueRequestsFromMapFunc(watchNamespaces(n, nss[n], objs, {})) :
                                n \in Namespaces }
    /\ UNCHANGED <<objs, nss, uidGen, ops, buildSrc, built>>

NextMalformed ==
    \/ Next
    \/ \E k \in Keys, v \in MalformedValues : CreateSource(k, v) /\ Track
    \/ Restart /\ Track

MalformedSpec == Init /\ [][NextMalformed]_vars

-----------------------------------------------------------------------------
(* The same system started from a state Spec reaches with its last          *)
(* operator call: namespace a is gone with its source a/tok, whose          *)
(* annotation was removed while a was terminating, and the copy t/tok is    *)
(* left with the origin label and the finalizer.                            *)
OrphanState ==
    /\ objs = [k \in Keys |->
                 IF k = <<"t", "tok">>
                 THEN [exists |-> TRUE, name |-> "tok", namespace |-> "t",
                       data |-> InitialPayload, annotations |-> EmptyMap,
                       labels |-> (sourceLabelNamespace :> "a"),
                       finalizers |-> {syncFinalizer}, del |-> FALSE, uid |-> 1]
                 ELSE NoObj]
    /\ nss = [n \in Namespaces |->
                 IF n = "t" THEN [exists |-> TRUE, labels |-> ("app" :> "demo"), terminating |-> FALSE]
                 ELSE IF n = "a" THEN [exists |-> FALSE, labels |-> EmptyMap, terminating |-> FALSE]
                 ELSE [exists |-> TRUE, labels |-> EmptyMap, terminating |-> FALSE]]
    /\ uidGen = [k \in Keys |-> IF k \in {<<"a", "tok">>, <<"t", "tok">>} THEN 2 ELSE 1]
    /\ queue = {}
    /\ selected = {}
    /\ buildSrc = NoBuild
    /\ built = NoBuild
    /\ crashed = FALSE

OrphanInit == OrphanState /\ ops = 0

OrphanSpec == OrphanInit /\ [][Next]_vars

-----------------------------------------------------------------------------
(* The same system in a cluster that already holds a synced source of       *)
(* another name: a/key, annotated app=demo, and its copy t/key in the       *)
(* namespace t labelled app=demo.                                           *)
(* The operator calls that built it: the source and the namespace label *)
SetupOps == 2

ScopeInit ==
    /\ objs = [k \in Keys |->
                 IF k = <<"a", "key">>
                 THEN [exists |-> TRUE, name |-> "key", namespace |-> "a",
                       data |-> InitialPayload,
                       annotations |-> (syncKey :> <<"app", "=", "demo">>),
                       labels |-> EmptyMap,
                       finalizers |-> {syncFinalizer}, del |-> FALSE, uid |-> 1]
                 ELSE IF k = <<"t", "key">>
                 THEN [exists |-> TRUE, name |-> "key", namespace |-> "t",
                       data |-> InitialPayload, annotations |-> EmptyMap,
                       labels |-> (sourceLabelNamespace :> "a"),
                       finalizers |-> {syncFinalizer}, del |-> FALSE, uid |-> 1]
                 ELSE NoObj]
    /\ nss = [n \in Namespaces |->
                 [exists |-> TRUE,
                  labels |-> IF n = "t" THEN ("app" :> "demo") ELSE EmptyMap,
                  terminating |-> FALSE]]
    /\ uidGen = [k \in Keys |-> IF k \in {<<"a", "key">>, <<"t", "key">>} THEN 2 ELSE 1]
    /\ queue = {}
    /\ ops = SetupOps
    /\ selected = { << <<"a", "key">>, "t" >> }
    /\ buildSrc = NoBuild
    /\ built = NoBuild
    /\ crashed = FALSE

ScopeSpec == ScopeInit /\ [][Next]_vars

-----------------------------------------------------------------------------
(* The copy builders on their own: a source of either kind is drawn, and    *)
(* one step builds its copy for a target namespace.                         *)

BuildInit ==
    /\ objs = [k \in Keys |-> NoObj]
    /\ nss = [n \in Namespaces |-> [exists |-> TRUE, labels |-> EmptyMap, terminating |-> FALSE]]
    /\ uidGen = [k \in Keys |-> 1]
    /\ queue = {}
    /\ ops = 0
    /\ selected = {}
    /\ buildSrc \in ConfigMaps \cup Secrets
    /\ built = NoBuild
    /\ crashed = FALSE

BuildConfigMapCopy(namespace) ==
    /\ buildSrc.kind = "ConfigMap"
    /\ built = NoBuild
    /\ built' = [target |-> namespace, copy |-> ConfigMapCopy(buildSrc, namespace)]
    /\ UNCHANGED <<objs, nss, uidGen, queue, ops, selected, buildSrc, crashed>>

BuildSecretCopy(namespace) ==
    /\ buildSrc.kind = "Secret"
    /\ built = NoBuild
    /\ built' = [target |-> namespace, copy |-> SecretCopy(buildSrc, namespace)]
    /\ UNCHANGED <<objs, nss, uidGen, queue, ops, selected, buildSrc, crashed>>

BuildNext ==
    \/ \E n \in Namespaces : BuildConfigMapCopy(n)
    \/ \E n \in Namespaces : BuildSecretCopy(n)

BuildSpec == BuildInit /\ [][BuildNext]_vars

-----------------------------------------------------------------------------
(* The step leaves at c an object that was not there before *)
Created(c) ==
    /\ objs'[c].exists
    /\ ~objs[c].exists \/ objs'[c].uid # objs[c].uid

(* The source at k carries a directive K=V and no namespace n has satisfied it *)
NeverSelected(k, n) ==
    /\ IsSource(k)
    /\ Len(objs[k].annotations[syncKey]) = 3 /\ objs[k].annotations[syncKey][2] = "="
    /\ <<k, n>> \notin selected

(* The step is a run of the engine *)
ReconcileStep == \E k \in Keys : Reconcile(k)

(* A reconcile of k in which no API call fails would change nothing: the   *)
(* request is not pending, or it fails and returns to the queue as it was.  *)
Quiet(k) ==
    k \in queue =>
        LET r == KopyReconcile(Store, Request(k), {}) IN
        /\ r.c.objs = objs
        /\ r.c.gen = uidGen
        /\ ((queue \ {k}) \cup r.c.ev) \cup (IF r.err # NoErr THEN {k} ELSE {}) = queue

(* The namespace controller has nothing to do for n *)
NamespaceIdle(n) ==
    TerminatingNamespace(n) =>
        /\ NamespaceContent(n) # {}
        /\ \A k \in NamespaceContent(n) : objs[k].del

(* Every request has been delivered and reconciled without an API failure, *)
(* and the namespace controller has done its work: "eventually" has come.  *)
Quiescent ==
    /\ \A k \in Requests : Quiet(k)
    /\ \A n \in Namespaces : NamespaceIdle(n)

-----------------------------------------------------------------------------
(* C1: fan-out convergence.  Once every request has been reconciled, every *)
(* non-terminating namespace n other than the source's own whose labels    *)
(* satisfy the selector of a source at k holds an object named as the      *)
(* source.                                                                 *)
C1_FanOutConvergence ==
    Quiescent =>
        \A k \in Keys, n \in Namespaces :
            (Selects(k, n) /\ ~objs[k].del /\ n # k[1]) => objs[KeyOf(n, k[2])].exists

-----------------------------------------------------------------------------
(* C2: payload propagation.  Once every request has been reconciled, every *)
(* copy of a source held by a non-terminating namespace whose labels       *)
(* satisfy the source's selector has the payload the source has then.      *)
C2_Case(k, c) == IsCopyOf(c, k) /\ Selects(k, c[1])

C2_PayloadPropagation ==
    Quiescent =>
        \A k \in Keys, c \in Keys : C2_Case(k, c) => objs[c].data = objs[k].data

(* An updated payload has reached a copy *)
C2_Witness ==
    /\ Quiescent
    /\ \E k \in Keys, c \in Keys :
        /\ C2_Case(k, c)
        /\ objs[k].data # InitialPayload
        /\ objs[c].data = objs[k].data

-----------------------------------------------------------------------------
(* C3 as stated: no copy without opt-in.  For a source at k and a namespace *)
(* n whose labels have never satisfied the source's selector, no reconcile  *)
(* creates an object named as the source in n.                              *)
C3_NoObjectWithoutOptIn ==
    [][ReconcileStep =>
         \A k \in Keys, n \in Namespaces :
             NeverSelected(k, n) => ~Created(KeyOf(n, k[2]))]_vars

(* C3 as amended: for a source at k and a namespace n whose labels have     *)
(* never satisfied the source's selector, no reconcile creates in n an      *)
(* object labelled with the source's namespace as its origin; an object of  *)
(* that name may be created there as the copy of another source.            *)
C3_NoCopyWithoutOptIn ==
    [][ReconcileStep =>
         \A k \in Keys, n \in Namespaces :
             NeverSelected(k, n) =>
                 ~(Created(KeyOf(n, k[2])) /\ OriginOf(KeyOf(n, k[2]))' = k[1])]_vars

(* A synced source and a namespace it never selected, which holds the copy *)
(* of another source of the same name                                      *)
C3_Witness ==
    \E k \in Keys, n \in Namespaces :
        /\ NeverSelected(k, n)
        /\ HasFinalizer(k)
        /\ objs[KeyOf(n, k[2])].exists
        /\ OriginOf(KeyOf(n, k[2])) \notin {"", k[1]}

-----------------------------------------------------------------------------
(* C4: name collision across sources.  Two sources k1 and k2 of one name in *)
(* different namespaces both select namespace t, and t holds a copy         *)
(* labelled with k1's namespace.  No reconcile that leaves the source at k1 *)
(* in place gives the object at t/name another origin label or a payload    *)
(* other than the one it had or the one of k1.                              *)
C4_Case(k1, k2, t) ==
    /\ k1[1] # k2[1] /\ k1[2] = k2[2]
    /\ Selects(k1, t) /\ Selects(k2, t)
    /\ IsCopyOf(KeyOf(t, k1[2]), k1)

C4_NameCollision ==
    [][ReconcileStep =>
         \A k1 \in Keys, k2 \in Keys, t \in Namespaces :
             (C4_Case(k1, k2, t) /\ IsSource(k1)' /\ objs'[KeyOf(t, k1[2])].exists) =>
                 /\ OriginOf(KeyOf(t, k1[2]))' = k1[1]
                 /\ objs'[KeyOf(t, k1[2])].data \in
                        {objs[KeyOf(t, k1[2])].data, objs[k1].data}]_vars

(* Both sources have been reconciled, their payloads differ, and the copy   *)
(* still is the first source's                                              *)
C4_Witness ==
    /\ Quiescent
    /\ \E k1 \in Keys, k2 \in Keys, t \in Namespaces :
        /\ C4_Case(k1, k2, t)
        /\ HasFinalizer(k1) /\ HasFinalizer(k2)
        /\ objs[k2].data # objs[k1].data
        /\ objs[KeyOf(t, k1[2])].data = objs[k1].data

-----------------------------------------------------------------------------
(* C5: source deletion releases copies.  Once every request has been        *)
(* reconciled no deletion-pending source is left, and the reconcile of a    *)
(* deletion-pending source removes the source, leaves none of its copies    *)
(* with the finalizer and leaves in place every copy that was not itself    *)
(* deletion-pending.                                                        *)
DeletedSource(k) == IsSource(k) /\ objs[k].del

C5_SourceDeletionReleasesCopies ==
    /\ [](Quiescent => \A k \in Keys : ~DeletedSource(k))
    /\ [][\A k \in Keys :
            (DeletedSource(k) /\ Reconcile(k)) =>
                /\ ~objs'[k].exists
                /\ \A c \in Keys :
                      IsCopyOf(c, k) =>
                          /\ ~HasFinalizer(c)'
                          /\ ~objs[c].del => objs'[c].exists]_vars

(* The source is gone and its former copy is left, released *)
C5_Witness ==
    /\ Quiescent
    /\ \A k \in Keys : k[1] \in SourceNamespaces => ~objs[k].exists
    /\ \E c \in Keys :
        /\ c[1] \notin SourceNamespaces
        /\ objs[c].exists /\ ~HasFinalizer(c) /\ ~objs[c].del

-----------------------------------------------------------------------------
(* C6: source finalizer retention.  A source being torn down is a           *)
(* deletion-pending source or a former source whose annotation was removed  *)
(* (it holds the finalizer and has neither annotation nor origin label).    *)
(* Whenever a reconcile of it, with or without failing writes, leaves a     *)
(* copy of it holding the finalizer, the source is left as it was, with     *)
(* its finalizer, and the request returns to the queue.                     *)
TornDown(k) ==
    /\ HasFinalizer(k)
    /\ OriginOf(k) = ""
    /\ DeletedSource(k) \/ ~IsSource(k)

CopyStillHeld(k) == \E c \in Keys : IsCopyOf(c, k) /\ HasFinalizer(c)

C6_SourceFinalizerRetention ==
    [][\A k \in Keys, fail \in SUBSET OperatorKeys :
          (TornDown(k) /\ ReconcileWith(k, fail) /\ CopyStillHeld(k)') =>
              /\ objs'[k] = objs[k]
              /\ k \in queue']_vars

-----------------------------------------------------------------------------
(* C7: copy regeneration.  A deleted copy is a deletion-pending copy with   *)
(* the finalizer whose source exists and whose namespace is not terminating *)
(* and satisfies the source's selector.  Once every request has been        *)
(* reconciled no such copy is left, and the reconcile of one leaves at its  *)
(* key an object with another unique-id that holds the finalizer.           *)
DeletedCopy(c, k) ==
    /\ IsCopyOf(c, k) /\ objs[c].del /\ HasFinalizer(c)
    /\ Selects(k, c[1])

C7_CopyRegeneration ==
    /\ [](Quiescent => \A c \in Keys, k \in Keys : ~DeletedCopy(c, k))
    /\ [][\A c \in Keys, k \in Keys :
            (DeletedCopy(c, k) /\ Reconcile(c)) =>
                /\ objs'[c].exists
                /\ objs'[c].uid # objs[c].uid
                /\ HasFinalizer(c)' /\ ~objs'[c].del]_vars

(* A regenerated copy: the second object at its key *)
C7_Witness ==
    /\ Quiescent
    /\ \E c \in Keys, k \in Keys :
        /\ IsCopyOf(c, k) /\ Selects(k, c[1])
        /\ c[1] \notin SourceNamespaces
        /\ objs[c].uid # 1
        /\ HasFinalizer(c) /\ ~objs[c].del

-----------------------------------------------------------------------------
(* C8: namespace teardown is unblocked.  Once every request has been        *)
(* reconciled, no object in a terminating namespace holds the finalizer.    *)
C8_NamespaceTeardownUnblocked ==
    Quiescent =>
        \A k \in Keys : TerminatingNamespace(k[1]) => ~HasFinalizer(k)

(* A namespace that held a copy has been deleted and is gone *)
C8_Witness ==
    /\ Quiescent
    /\ \E k \in Keys :
        /\ k[1] \notin SourceNamespaces
        /\ uidGen[k] # 1
        /\ ~nss[k[1]].exists

-----------------------------------------------------------------------------
(* C9: deleting the namespace that holds a source.  Once every request has  *)
(* been reconciled no source is left in a terminating or removed namespace, *)
(* and the reconcile of a deletion-pending source whose namespace is        *)
(* terminating runs the source teardown: the source loses the finalizer and *)
(* none of its copies keeps it.                                             *)
C9_SourceNamespaceDeleted ==
    /\ [](Quiescent => \A k \in Keys : IsSource(k) => ActiveNamespace(k[1]))
    /\ [][\A k \in Keys :
            (DeletedSource(k) /\ ~ActiveNamespace(k[1]) /\ Reconcile(k)) =>
                /\ ~HasFinalizer(k)'
                /\ \A c \in Keys : IsCopyOf(c, k) => ~HasFinalizer(c)']_vars

(* Three operator actions (create the source, label the target, delete the *)
(* source's namespace) have left the namespace removed and the copy        *)
(* released                                                                *)
C9_Witness ==
    /\ Quiescent
    /\ ops = 3
    /\ \E n \in SourceNamespaces, c \in Keys :
        /\ ~nss[n].exists
        /\ c[1] \notin SourceNamespaces
        /\ objs[c].exists /\ ~HasFinalizer(c)

-----------------------------------------------------------------------------
(* C10: annotation removal equals source deletion for finalizers.  A former *)
(* source is an object that holds the finalizer and has neither the sync    *)
(* annotation nor an origin label.  Once every request has been reconciled  *)
(* no former source with a copy is left holding the finalizer, and a        *)
(* reconcile that takes the finalizer from a former source leaves none of   *)
(* its copies with the finalizer.                                           *)
FormerSource(k) == HasFinalizer(k) /\ ~IsSource(k) /\ OriginOf(k) = ""

C10_AnnotationRemoval ==
    /\ [](Quiescent => \A k \in Keys, c \in Keys : ~(FormerSource(k) /\ IsCopyOf(c, k)))
    /\ [][\A k \in Keys :
            (FormerSource(k) /\ Reconcile(k) /\ ~HasFinalizer(k)') =>
                \A c \in Keys : IsCopyOf(c, k) => ~HasFinalizer(c)']_vars

-----------------------------------------------------------------------------
(* C11: the engine never mutates a source beyond its finalizer.  No         *)
(* reconcile step changes the payload or the annotations of an object that  *)
(* carries the sync annotation and is still there after the step.           *)
C11_SourceNotMutated ==
    [][ReconcileStep =>
         \A k \in Keys :
             (IsSource(k) /\ objs'[k].exists) =>
                 /\ objs'[k].data = objs[k].data
                 /\ objs'[k].annotations = objs[k].annotations]_vars

-----------------------------------------------------------------------------
(* C12: every copy has a live source.  Each object that carries the origin  *)
(* label and the finalizer either has an existing object of the same name   *)
(* in the namespace the label names, or is itself deletion-pending.         *)
(* Stated for the states in which the controllers have nothing left to do,  *)
(* so that no half-done teardown counts against it.                         *)
C12_CopyHasLiveSource ==
    \A c \in Keys :
        (Quiescent /\ HasFinalizer(c) /\ OriginOf(c) \in Namespaces) =>
            \/ objs[<<OriginOf(c), c[2]>>].exists
            \/ objs[c].del

-----------------------------------------------------------------------------
(* The step wrote the object at c as a copy: it created it, or changed it   *)
(* and left it with an origin label                                         *)
CopyWritten(c) ==
    /\ objs'[c].exists
    /\ objs'[c] # objs[c]
    /\ Created(c) \/ sourceLabelNamespace \in DOMAIN objs'[c].labels

(* C13: every copy the engine creates or updates carries the origin label   *)
(* with the namespace of the source it was built from (the reconciled       *)
(* object, or the object the reconciled copy's label names) and the         *)
(* finalizer as its only finalizer.                                         *)
C13_CopyTagged ==
    [][\A k \in Keys : Reconcile(k) =>
         \A c \in Keys : CopyWritten(c) =>
             /\ sourceLabelNamespace \in DOMAIN objs'[c].labels
             /\ objs'[c].labels[sourceLabelNamespace] =
                    (IF OriginOf(k) # "" THEN OriginOf(k) ELSE k[1])
             /\ objs[KeyOf(objs'[c].labels[sourceLabelNamespace], c[2])].exists
             /\ objs'[c].finalizers = {syncFinalizer}]_vars

(* A labelled copy holds an updated payload: it was created and then updated *)
C13_Witness ==
    \E c \in Keys :
        /\ OriginOf(c) \in Namespaces
        /\ objs[c].data # InitialPayload
        /\ objs[c].finalizers = {syncFinalizer}

-----------------------------------------------------------------------------
(* C14: the copy builder.  The object built from S for namespace T is named *)
(* S.name, lies in T, and every payload field equals S's: Data and          *)
(* BinaryData of a ConfigMap; Data, StringData and Type of a Secret.        *)
C14_BuildCopy ==
    built # NoBuild =>
        /\ built.copy.name = buildSrc.name
        /\ built.copy.namespace = built.target
        /\ built.copy.Data = buildSrc.Data
        /\ buildSrc.kind = "ConfigMap" => built.copy.BinaryData = buildSrc.BinaryData
        /\ buildSrc.kind = "Secret" =>
               /\ built.copy.StringData = buildSrc.StringData
               /\ built.copy.Type = buildSrc.Type

-----------------------------------------------------------------------------
(* C15: a copy never lives in its source's namespace and is named as its    *)
(* source.  No object carries an origin label that names its own namespace, *)
(* every object is stored under its own namespace and name, and a reconcile *)
(* of a source whose own namespace satisfies its selector does not write    *)
(* the source as a copy.                                                    *)
C15_CopyOutsideSourceNamespace ==
    /\ [](\A c \in Keys :
            objs[c].exists =>
                /\ OriginOf(c) # c[1]
                /\ objs[c].namespace = c[1] /\ objs[c].name = c[2])
    /\ [][\A k \in Keys :
            (Reconcile(k) /\ Selects(k, k[1])) =>
                (objs'[k].exists => sourceLabelNamespace \notin DOMAIN objs'[k].labels)]_vars

(* A reconciled source whose own namespace satisfies its selector, with a   *)
(* copy in another namespace                                                *)
C15_Witness ==
    \E k \in Keys, c \in Keys :
        /\ Selects(k, k[1])
        /\ HasFinalizer(k)
        /\ k \notin queue
        /\ IsCopyOf(c, k)

-----------------------------------------------------------------------------
(* C16: no object carries both the sync annotation and the origin label,    *)
(* and a copy never fans out: a reconcile of an object with an origin label *)
(* writes no object but that one.                                           *)
C16_CopyIsNoSource ==
    /\ [](\A k \in Keys : ~(IsSource(k) /\ OriginOf(k) # ""))
    /\ [][\A k \in Keys :
            (Reconcile(k) /\ OriginOf(k) # "") =>
                \A c \in Keys \ {k} : objs'[c] = objs[c]]_vars

(* A copy with its source in place has been reconciled *)
C16_Witness ==
    \E k \in Keys, c \in Keys :
        /\ IsSource(k)
        /\ IsCopyOf(c, k)
        /\ HasFinalizer(c)
        /\ c \notin queue

-----------------------------------------------------------------------------
(* The store a run of KopyReconcile leaves, as the next run finds it *)
After(r) == [objs |-> r.c.objs, gen |-> r.c.gen, ev |-> {}]

(* C17: idempotent replay.  In every reachable state and for every key, a   *)
(* second run of KopyReconcile right after the first, with no API failure   *)
(* and nothing else in between, leaves the objects as the first run left    *)
(* them.                                                                    *)
C17_IdempotentReplay ==
    \A k \in Keys :
        LET first == KopyReconcile(Store, Request(k), {})
            second == KopyReconcile(After(first), Request(k), {})
        IN second.c.objs = first.c.objs

(* The first run writes: it regenerates a deleted copy *)
C17_Witness ==
    \E k \in Keys :
        /\ objs[k].del /\ OriginOf(k) # ""
        /\ LET first == KopyReconcile(Store, Request(k), {}) IN
              first.c.objs[k].exists /\ first.c.objs[k].uid # objs[k].uid

-----------------------------------------------------------------------------
(* The annotation value v is a directive K=V with a non-empty K and V *)
WellFormed(v) == Len(v) = 3 /\ v[1] # "=" /\ v[2] = "=" /\ v[3] # "="

(* C18: a malformed annotation leaves the object unmanaged.  A reconcile of *)
(* an object without the finalizer whose sync annotation is not K=V with a  *)
(* non-empty K and V changes no object: it adds no finalizer and creates no *)
(* copy.                                                                    *)
C18_MalformedUnmanaged ==
    [][\A k \in Keys :
         (Reconcile(k) /\ IsSource(k) /\ ~HasFinalizer(k)
            /\ ~WellFormed(objs[k].annotations[syncKey])) =>
                objs' = objs]_vars

-----------------------------------------------------------------------------
(* The fan-out of the source at k meets a target that carries the origin    *)
(* label of another namespace: SyncSource refuses it with an error          *)
FanOutRefused(k) ==
    /\ IsSource(k) /\ ~objs[k].del /\ OriginOf(k) = ""
    /\ \E n \in getSyncNamespaces(Request(k), LabelSelector(objs[k])) :
          OriginOf(KeyOf(n, k[2])) \notin {"", k[1]}

(* C19: fan-out errors are returned.  A reconcile whose fan-out is refused  *)
(* by a target of another origin returns an error, so that the request is   *)
(* retried.                                                                 *)
C19_FanOutErrorsReturned ==
    \A k \in Keys :
        (k \in queue /\ FanOutRefused(k)) =>
            KopyReconcile(Store, Request(k), {}).err # NoErr

-----------------------------------------------------------------------------
(* C20: no panic on a malformed directive.  The namespace mapper has not    *)
(* brought the process down, and no pending reconcile would panic.          *)
C20_NoPanic ==
    /\ ~crashed
    /\ \A k \in queue : KopyReconcile(Store, Request(k), {}).err # "panic"

-----------------------------------------------------------------------------
(* C21: onboarding order.  A reconcile of a source without the finalizer,   *)
(* whatever writes fail in it, creates a copy only if it leaves the source  *)
(* with the finalizer; when the update that adds the finalizer fails, it    *)
(* changes no object and the request returns to the queue.                  *)
C21_OnboardingOrder ==
    [][\A k \in Keys, fail \in SUBSET OperatorKeys :
         (IsSource(k) /\ ~HasFinalizer(k) /\ ReconcileWith(k, fail)) =>
             /\ (\E c \in Keys : Created(c)) => HasFinalizer(k)'
             /\ k \in fail => (objs' = objs /\ k \in queue')]_vars

(* A source has been onboarded: it carries the finalizer and has a copy *)
C21_Witness ==
    \E k \in Keys, c \in Keys : IsSource(k) /\ HasFinalizer(k) /\ IsCopyOf(c, k)

-----------------------------------------------------------------------------
(* The object at k is a copy in its steady state *)
SteadyCopy(k) == OriginOf(k) # "" /\ HasFinalizer(k) /\ ~objs[k].del

(* C22: a steady-state copy is left alone.  A reconcile of an object with   *)
(* the origin label and the finalizer that is not deletion-pending changes  *)
(* no object.                                                               *)
C22_SteadyCopyLeftAlone ==
    [][\A k \in Keys : (SteadyCopy(k) /\ Reconcile(k)) => objs' = objs]_vars

-----------------------------------------------------------------------------
(* The object at k is a deletion-pending copy in a namespace that is not    *)
(* terminating, and no object of its name is left in its origin namespace   *)
DeletedCopySourceGone(k) ==
    /\ objs[k].exists /\ objs[k].del /\ HasFinalizer(k)
    /\ OriginOf(k) # "" /\ ~IsSource(k)
    /\ ActiveNamespace(k[1])
    /\ ~ApiGet(Store, OriginOf(k), k[2]).obj.exists

(* C23: source gone during copy regeneration.  A pending reconcile of a     *)
(* deletion-pending copy whose source is not found returns no error and     *)
(* leaves no copy behind.                                                   *)
C23_SourceGoneAbortsRegenerate ==
    \A k \in Keys :
        (k \in queue /\ DeletedCopySourceGone(k)) =>
            LET r == KopyReconcile(Store, Request(k), {}) IN
            /\ r.err = NoErr
            /\ ~r.c.objs[k].exists \/ r.c.objs[k].uid = objs[k].uid

-----------------------------------------------------------------------------
(* C24: the namespace oracle.  Without a failure it says "terminating or    *)
(* absent" exactly for the namespaces that are absent or terminating; and   *)
(* a reconcile that consults it (a deletion-pending object with the         *)
(* finalizer and without the annotation) while the GET of the namespace     *)
(* fails changes no object and returns to the queue.                        *)
C24_NamespaceOracle ==
    /\ [](\A n \in Namespaces :
            isNamespaceMarkedForDelete(n, {}) <=> (~nss[n].exists \/ nss[n].terminating))
    /\ [][\A k \in Keys :
            (objs[k].del /\ HasFinalizer(k) /\ ~IsSource(k) /\ ReconcileGetFault(k)) =>
                (objs' = objs /\ k \in queue')]_vars

-----------------------------------------------------------------------------
(* The object at k is a deletion-pending copy in a namespace that is not    *)
(* terminating, its source at s exists, and the namespace's labels no       *)
(* longer satisfy the source's selector                                     *)
DeletedCopyUnselected(k, s) ==
    /\ objs[k].exists /\ objs[k].del /\ HasFinalizer(k) /\ ~IsSource(k)
    /\ ActiveNamespace(k[1])
    /\ s = KeyOf(OriginOf(k), k[2]) /\ IsSource(s)
    /\ WellFormed(objs[s].annotations[syncKey])
    /\ ~Satisfies(nss[k[1]].labels, objs[s].annotations[syncKey])

(* C25: a copy deleted in a namespace that no longer matches.  A reconcile  *)
(* of such a copy removes the copy for good (its finalizer is removed and   *)
(* no copy is created in its place), changes no other object and does not   *)
(* return to the queue with an error.                                       *)
C25_DeletedCopyNotRecreated ==
    /\ [](\A k \in Keys, s \in Keys :
            (k \in queue /\ DeletedCopyUnselected(k, s)) =>
                KopyReconcile(Store, Request(k), {}).err = NoErr)
    /\ [][\A k \in Keys, s \in Keys :
            (DeletedCopyUnselected(k, s) /\ Reconcile(k)) =>
                /\ ~objs'[k].exists
                /\ \A c \in Keys \ {k} : objs'[c] = objs[c]]_vars

(* Such a copy has been reconciled: its key is free and the source is there *)
C25_Witness ==
    \E k \in Keys, s \in Keys :
        /\ IsSource(s) /\ HasFinalizer(s) /\ s # k /\ s[2] = k[2]
        /\ ~objs[k].exists /\ uidGen[k] = 2
        /\ ActiveNamespace(k[1]) /\ k[1] \notin SourceNamespaces
        /\ ~Satisfies(nss[k[1]].labels, objs[s].annotations[syncKey])
        /\ k \notin queue

-----------------------------------------------------------------------------
(* C26: a malformed annotation on an object with the finalizer.  A          *)
(* reconcile of an object that carries the finalizer and a sync annotation  *)
(* that is not K=V, and that is not deletion-pending, takes the finalizer   *)
(* from its copies and from the object and creates nothing.                 *)
C26_MalformedOrphanSource ==
    [][\A k \in Keys :
         (IsSource(k) /\ HasFinalizer(k) /\ ~objs[k].del /\ OriginOf(k) = ""
            /\ ~WellFormed(objs[k].annotations[syncKey]) /\ Reconcile(k)) =>
                /\ ~HasFinalizer(k)'
                /\ \A c \in Keys : IsCopyOf(c, k)' => ~HasFinalizer(c)'
                /\ \A c \in Keys : ~Created(c)]_vars

-----------------------------------------------------------------------------
(* C27: the fan-out skips terminating namespaces.  The namespaces the       *)
(* fan-out of a source is given hold none that is marked for deletion, and  *)
(* a reconcile of a source that is not deletion-pending changes no object   *)
(* of a namespace that is marked for deletion.                              *)
C27_FanOutSkipsTerminating ==
    /\ [](\A k \in Keys :
            IsSource(k) =>
                \A n \in getSyncNamespaces(Request(k), LabelSelector(objs[k])) :
                    ~TerminatingNamespace(n))
    /\ [][\A k \in Keys :
            (IsSource(k) /\ ~objs[k].del /\ OriginOf(k) = "" /\ Reconcile(k)) =>
                \A c \in Keys \ {k} :
                    TerminatingNamespace(c[1]) => objs'[c] = objs[c]]_vars

(* A source has been reconciled after an update while a terminating         *)
(* namespace that satisfies its selector holds a copy with the old payload  *)
C27_Witness ==
    \E k \in Keys, c \in Keys :
        /\ IsSource(k) /\ HasFinalizer(k) /\ k \notin queue
        /\ IsCopyOf(c, k)
        /\ TerminatingNamespace(c[1])
        /\ Satisfies(nss[c[1]].labels, objs[k].annotations[syncKey])
        /\ objs[c].data # objs[k].data

-----------------------------------------------------------------------------
(* The reconcile of the object at k is a source teardown: k carries the     *)
(* finalizer and no origin label, and is deletion-pending with the          *)
(* annotation, or has lost the annotation                                   *)
SourceTeardown(k) ==
    /\ HasFinalizer(k) /\ OriginOf(k) = ""
    /\ IF objs[k].del THEN IsSource(k) ELSE ~IsSource(k)

(* C28: teardown scope.  A source teardown changes, besides the source,     *)
(* only objects whose origin label names the source's namespace and whose   *)
(* name is the source's; every other object stays as it is.                 *)
C28_TeardownScope ==
    [][\A k \in Keys :
         (SourceTeardown(k) /\ Reconcile(k)) =>
             \A c \in Keys \ {k} :
                 objs'[c] # objs[c] => (OriginOf(c) = k[1] /\ c[2] = k[2])]_vars

(* A teardown has released the copy of its name and left the copy of the    *)
(* other name, of the same origin and in the same namespace, as it was      *)
C28_Witness ==
    \E k \in Keys, c \in Keys, d \in Keys :
        /\ ~objs[k].exists /\ uidGen[k] = 2
        /\ c[1] = d[1] /\ c[2] = k[2] /\ d[2] # k[2] /\ c[1] # k[1]
        /\ objs[c].exists /\ OriginOf(c) = "" /\ ~HasFinalizer(c) /\ ~IsSource(c)
        /\ OriginOf(d) = k[1] /\ HasFinalizer(d)

-----------------------------------------------------------------------------
(* C29 *)

(* The object at c is a copy of the managed source at k, in a namespace
   the source's fan-out writes to *)
ExistingCopy(c, k) ==
    /\ IsSource(k)
    /\ ~objs[k].del
    /\ OriginOf(k) = ""
    /\ ActiveNamespace(k[1])
    /\ IsCopyOf(c, k)
    /\ c[1] \in getSyncNamespaces(Request(k), LabelSelector(objs[k]))

(* C29: upsert preserves identity. When a copy already exists in a target
   namespace, a reconcile of its source leaves the copy in place with the
   unique-id it had before, and the copy's stored payload is the source's
   payload. *)
C29_UpsertKeepsIdentity ==
    [][\A k \in Keys, c \in Keys :
         (ExistingCopy(c, k) /\ Reconcile(k)) =>
             /\ objs'[c].exists
             /\ objs'[c].uid = objs[c].uid
             /\ objs'[c].data = objs[k].data
             /\ uidGen'[c] = uidGen[c]]_vars

(* A copy created once that carries a payload its source was updated to *)
C29_Witness ==
    \E k \in Keys, c \in Keys :
        /\ IsSource(k)
        /\ IsCopyOf(c, k)
        /\ objs[k].data # InitialPayload
        /\ objs[c].data = objs[k].data
        /\ objs[c].uid = 1
        /\ uidGen[c] = 2

-----------------------------------------------------------------------------
(* C30 *)

(* Working from the version o, the engine takes a branch that ends in the
   Update adding the finalizer to, or removing it from, the reconciled object *)
FinalizerUpdate(o) ==
    IF ContainsFinalizer(o)
    THEN o.del \/ (sourceLabelNamespace \notin DOMAIN o.labels /\ ~SyncOptions(o))
    ELSE SyncOptions(o)

(* C30: optimistic concurrency on the reconciled object. When the reconciled
   object was modified between the engine's fetch and its Update adding or
   removing the finalizer, the Update is refused: the stored object stays as
   the other actor left it, the reconcile returns an error, so the request is
   queued again, and the reconcile that follows reads the stored object. *)
C30_ConflictRejected ==
    [][\A k \in Keys :
         (k \in queue /\ objs[k].exists) =>
             \A old \in EarlierVersions(k) :
                 (FinalizerUpdate(old) /\ ReconcileStaleWith(k, old)) =>
                     /\ objs'[k] = objs[k]
                     /\ k \in queue'
                     /\ Fetch(Store, Request(k))' = objs'[k]]_vars

(* A deletion-pending source, modified after the engine read it, whose copy
   the teardown released before the Update removing the source's finalizer
   was refused: the source still holds its finalizer and is queued again *)
C30_Witness ==
    \E k \in Keys, c \in Keys :
        /\ IsSource(k) /\ HasFinalizer(k) /\ objs[k].del
        /\ objs[k].data # InitialPayload
        /\ k \in queue
        /\ c[2] = k[2] /\ Selects(k, c[1])
        /\ objs[c].exists /\ OriginOf(c) = "" /\ ~HasFinalizer(c)
        /\ objs[c].data = InitialPayload

-----------------------------------------------------------------------------
(* C31 *)

(* The requests the mapper returns for namespace n in this state *)
Mapped(n) == watchNamespaces(n, nss[n], objs, {})

(* C31: namespace mapper result. For a namespace that is not terminating the
   mapper returns exactly the keys of the objects whose sync annotation K=V
   is satisfied by the namespace's labels, each key once, and no other
   request; so no other request reaches the work queue. *)
C31_MapperResult ==
    /\ \A n \in Namespaces :
          ActiveNamespace(n) =>
              /\ EnqueueRequestsFromMapFunc(Mapped(n)) = { k \in Keys : Selects(k, n) }
              /\ \A i, j \in 1..Len(Mapped(n)) : Mapped(n)[i] = Mapped(n)[j] => i = j
    /\ queue \subseteq Keys

-----------------------------------------------------------------------------
(* C32 *)

(* C32: namespace mapper on teardown. For a namespace that is terminating or
   absent the mapper returns no request, also when its GET of the namespace
   fails: a namespace event of such a namespace adds nothing to the work
   queue. *)
C32_MapperSilentOnTeardown ==
    [](\A n \in Namespaces : ~ActiveNamespace(n) => Mapped(n) = << >>)
    /\ [][\A n \in Namespaces :
            (~ActiveNamespace(n) /\ NamespaceUpdateGetFault(n)) => queue' = queue]_vars

-----------------------------------------------------------------------------
(* C33 *)

(* The object at k carries neither the finalizer nor the sync annotation *)
Unmanaged(k) == objs[k].exists /\ ~HasFinalizer(k) /\ ~IsSource(k)

(* C33: unmanaged objects are untouched by their own reconcile. The reconcile
   of an object without finalizer and without sync annotation writes to no
   object and returns success: the request leaves the work queue and no
   other request joins it. *)
C33_UnmanagedUntouched ==
    [][\A k \in Keys :
         (Unmanaged(k) /\ Reconcile(k)) =>
             /\ objs' = objs
             /\ uidGen' = uidGen
             /\ queue' = queue \ {k}]_vars

(* An unmanaged object whose request has been reconciled *)
C33_Witness ==
    \E k \in Keys : Unmanaged(k) /\ k \notin queue

-----------------------------------------------------------------------------
(* C34 *)

(* C34: absent object. When the GET of the requested object answers
   not-found the reconcile writes nothing and returns success, so the request
   leaves the work queue; when the GET fails with another error the reconcile
   writes nothing and returns the error, so the request is queued again. *)
C34_AbsentObject ==
    [][\A k \in Keys :
         /\ (~objs[k].exists /\ Reconcile(k)) =>
                (objs' = objs /\ uidGen' = uidGen /\ queue' = queue \ {k})
         /\ ReconcileFetchFault(k) =>
                (objs' = objs /\ uidGen' = uidGen /\ queue' = queue)]_vars

(* An object that existed is gone and the request its removal raised has
   been reconciled *)
C34_Witness ==
    \E k \in Keys : ~objs[k].exists /\ uidGen[k] = 2 /\ k \notin queue

-----------------------------------------------------------------------------
(* C35 *)

(* C35: empty request. The reconcile of the request whose name and namespace
   are blank, as the namespace mapper returns it for the listed objects that
   do not match, returns success at once: it writes no object, it reads none
   (it succeeds also while the GET of the requested object fails), and the
   request leaves the work queue. *)
C35_EmptyRequest ==
    /\ [](EmptyRequest \in queue =>
             \A fail \in {{}, {FetchFails(Request(EmptyRequest))}} :
                 LET r == KopyReconcile(Store, Request(EmptyRequest), fail) IN
                 r.err = NoErr /\ r.c = Store)
    /\ [][(Reconcile(EmptyRequest) \/ ReconcileFetchFault(EmptyRequest)) =>
             (objs' = objs /\ uidGen' = uidGen /\ queue' = queue \ {EmptyRequest})]_vars

(* A copy whose namespace was relabelled so that it matches its source no
   longer: the mapper ran with a listed source that did not match, and the
   blank request it returned has been reconciled *)
C35_Witness ==
    /\ EmptyRequest \notin queue
    /\ \E k \in Keys, c \in Keys :
          /\ IsSource(k) /\ IsCopyOf(c, k) /\ HasFinalizer(c)
          /\ ActiveNamespace(c[1]) /\ ~Selects(k, c[1])

-----------------------------------------------------------------------------
(* C36 *)

(* C36: no object is stuck terminating. Once every request has been
   reconciled and no reconcile would write any more, no object is left that
   is deletion-pending and still carries the finalizer, whether it is a
   source, a copy, a former source or a copy whose source is gone. *)
C36_NoStuckTerminating ==
    Quiescent => \A k \in Keys : ~(HasFinalizer(k) /\ objs[k].del)

-----------------------------------------------------------------------------
(* C37 *)

(* C37: the ownership check guards every upsert. Whenever a step leaves an
   object changed and labelled with an origin namespace, the object was
   absent, without origin label, or labelled with the same origin before the
   step: no reconcile, whether the read of the target fails or the copy is
   regenerated, writes a copy over an object whose origin label names another
   namespace. *)
C37_OwnershipGuardsUpsert ==
    [][\A c \in Keys :
         (objs'[c] # objs[c] /\ OriginOf(c)' # "") =>
             \/ ~objs[c].exists
             \/ OriginOf(c) = ""
             \/ OriginOf(c) = OriginOf(c)']_vars

-----------------------------------------------------------------------------
(* C38 *)

(* The managed source at k fans out to the namespace of c, which holds an
   object named as the source that carries no origin label *)
UnlabelledTarget(c, k) ==
    /\ IsSource(k)
    /\ ~objs[k].del
    /\ OriginOf(k) = ""
    /\ ActiveNamespace(k[1])
    /\ c[2] = k[2]
    /\ c[1] \in getSyncNamespaces(Request(k), LabelSelector(objs[k]))
    /\ objs[c].exists
    /\ OriginOf(c) = ""

(* C38: adoption of an unlabelled target. When a target namespace already
   holds an object with the source's name and no origin label, the reconcile
   of the source overwrites it: afterwards its payload is the source's, its
   labels are the origin label alone, its finalizers the sync finalizer
   alone, and it carries no annotation; what it carried before is gone. *)
C38_UnlabelledTargetAdopted ==
    [][\A k \in Keys, c \in Keys :
         (UnlabelledTarget(c, k) /\ Reconcile(k)) =>
             /\ objs'[c].exists
             /\ objs'[c].data = objs[k].data
             /\ objs'[c].labels = (sourceLabelNamespace :> k[1])
             /\ objs'[c].finalizers = {syncFinalizer}
             /\ objs'[c].annotations = EmptyMap]_vars

(* Two Secrets created by the operator, one of them rewritten as the copy of
   the other after its namespace was labelled *)
C38_Witness ==
    /\ ops = 3
    /\ \A k \in Keys : objs[k].exists => uidGen[k] = 2 /\ objs[k].uid = 1 /\ objs[k].data = InitialPayload
    /\ \E k \in Keys, c \in Keys :
          /\ IsSource(k) /\ IsCopyOf(c, k)
          /\ \A d \in Keys : objs[d].exists => d \in {k, c}
          /\ \A n \in Namespaces :
                ActiveNamespace(n) /\ (n # c[1] => nss[n].labels = EmptyMap)

-----------------------------------------------------------------------------
(* C39 *)

(* A reconcile of the object at c would write nothing *)
NoWrite(c) ==
    LET r == KopyReconcile(Store, Request(c), {}) IN
    r.err = NoErr /\ r.c.objs = objs /\ r.c.gen = uidGen

(* C39: teardown releases copies completely. When the reconcile of a source
   being torn down succeeds (the source loses its finalizer), every copy of
   it that held the finalizer and is still there afterwards carries neither
   the finalizer nor the origin label nor the sync annotation, and a
   reconcile of it writes nothing. *)
C39_TeardownReleasesCompletely ==
    [][\A k \in Keys :
         (SourceTeardown(k) /\ Reconcile(k) /\ ~HasFinalizer(k)') =>
             \A c \in Keys :
                 (IsCopyOf(c, k) /\ HasFinalizer(c) /\ objs'[c].exists) =>
                     /\ ~HasFinalizer(c)'
                     /\ OriginOf(c)' = ""
                     /\ Unmanaged(c)'
                     /\ NoWrite(c)']_vars

(* A released copy, left in a namespace that holds copies only, whose
   request has been reconciled since *)
C39_Witness ==
    \E c \in Keys :
        /\ c[1] \notin SourceNamespaces
        /\ Unmanaged(c) /\ OriginOf(c) = "" /\ ~objs[c].del
        /\ c \notin queue

-----------------------------------------------------------------------------
(* C40 *)

(* A reconcile of the queued request k would leave the state as it is *)
Settled(k) ==
    LET r == KopyReconcile(Store, Request(k), {}) IN
    /\ r.c.objs = objs
    /\ r.c.gen = uidGen
    /\ ((queue \ {k}) \cup r.c.ev) \cup (IF r.err # NoErr THEN {k} ELSE {}) = queue

(* A reconcile of the request k would issue no write that raises an event *)
Silent(k) == KopyReconcile(Store, Request(k), {}).c.ev = {}

(* C40: quiescence. The operator makes finitely many calls; every behaviour
   then changes the state only finitely often, so the reconciles of a source
   and of its copies do not trigger one another for ever; and where the
   pending reconciles leave the state as it is they write nothing (they fail
   and are retried, without a write). *)
C40_Quiescence ==
    /\ <>[][FALSE]_vars
    /\ []((\A k \in queue : Settled(k)) => (\A k \in queue : Silent(k)))

(* A source and its copy at rest: nothing is queued and nothing is left to
   do *)
C40_Witness ==
    /\ queue = {}
    /\ Quiescent
    /\ \E k \in Keys, c \in Keys :
          IsSource(k) /\ HasFinalizer(k) /\ IsCopyOf(c, k) /\ HasFinalizer(c)

=============================================================================
